---------------------------- MODULE Spec2Model ----------------------------
(***************************************************************************)
(* The token contract of contracts/token/src/lib.rs as a state machine.    *)
(*                                                                         *)
(* The contract keeps everything in one instance storage: four             *)
(* configuration keys (admin, decimal, name, symbol) and one key per       *)
(* account address holding an i128 balance.  Every entry point is one      *)
(* action; a panic inside an entry point aborts the call and the host      *)
(* discards the writes made so far, so a failed call leaves the storage as *)
(* it was.                                                                 *)
(*                                                                         *)
(* i128 is modelled as a two's complement integer of I128_BITS bits: the   *)
(* arithmetic keeps its shape (range, trap or wrap-around at the ends)     *)
(* with a width the model checker can enumerate.  Whether an overflowing   *)
(* + or - traps or wraps is a property of the build (the overflow-checks   *)
(* setting of the profile), so both builds are explored.                   *)
(*                                                                         *)
(* The counter contract of contracts/increment/src/lib.rs is a second      *)
(* instance with one storage key, "count".  A stored value carries the     *)
(* type it was written with, and reading it as another type fails.         *)
(***************************************************************************)
EXTENDS Integers, FiniteSets, Sequences, TLC

\* ------------------------------------------------------------------ bounds

\* Width in bits of the modelled i128.
I128_BITS == 3

\* Number of initialize / mint / transfer calls made on the instance.
MaxCalls == 3

\* Width in bits of the modelled u32 of the counter contract.
U32_BITS == 4

\* ------------------------------------------------------------- value sets

\* Account identifiers (Address values).
Address == {"GA", "GB"}

\* The four configuration keys written by initialize.
ConfigKeys == {"admin", "decimal", "name", "symbol"}

\* Keys of the instance storage; an Address key never equals a Symbol key.
Keys == ConfigKeys \cup Address

\* Arguments of initialize: the token of the tests and a second one that
\* differs from it in every field.
TokenConfigs ==
    {[decimal |-> 6, name |-> "MyToken", symbol |-> "MTK"],
     [decimal |-> 18, name |-> "Gold", symbol |-> "GLD"]}

RECURSIVE Pow2(_)
Pow2(n) == IF n = 0 THEN 1 ELSE 2 * Pow2(n - 1)

I128_MIN == -Pow2(I128_BITS - 1)
I128_MAX == Pow2(I128_BITS - 1) - 1
I128 == I128_MIN..I128_MAX

\* Amounts passed to mint and transfer: both ends of i128 and the values
\* around zero.
Amounts == {I128_MIN, -1, 0, 1, 2, I128_MAX}

\* No address / no value placeholders of the call record.
NoAddr == "none"
NoCfg == [admin |-> NoAddr, decimal |-> 0, name |-> "", symbol |-> ""]

\* --------------------------------------------------------------- variables

VARIABLES
    storage,         \* env.storage().instance(): key -> Option value
    wrapsOnOverflow, \* the build wraps on i128 overflow (else it traps)
    before,          \* the storage as it was when the last call started
    call,            \* the last call: entry point, arguments, proofs, outcome
    minted,          \* sum of the amounts of all successful mint calls
    mintWrapped,     \* some successful mint stored a wrapped-around sum
    lastInit,        \* the arguments of the most recent initialize call
    prevAdmin,       \* the administrator the most recent initialize replaced
    touched,         \* accounts a successful mint or transfer has named
    ninit,           \* number of initialize calls made so far
    transferred,     \* some transfer call has succeeded
    ncalls,          \* initialize / mint / transfer calls made so far
    counter,         \* storage of the counter contract: Option value of "count"
    counterBefore,   \* `counter` as it was when the last call started
    prior            \* last counter entry point that succeeded in changing
                     \* `counter` before the last call started

vars ==
    <<storage, wrapsOnOverflow, before, call, minted, mintWrapped, lastInit,
      prevAdmin, touched, ninit, transferred, ncalls, counter, counterBefore,
      prior>>

\* What is remembered of the calls made so far.
history ==
    <<minted, mintWrapped, lastInit, prevAdmin, touched, ninit, transferred, ncalls>>

\* ------------------------------------------------------ storage primitives

\* Option<T>: None is the empty tuple, Some(v) the one-element tuple.
Absent == <<>>

\* storage.get(key).unwrap_or(default)
UnwrapOr(o, d) == IF o = Absent THEN d ELSE o[1]

\* storage.set(key, value)
Set(s, k, v) == [s EXCEPT ![k] = <<v>>]

\* The balance of an account in a store: absent entry = 0.
Bal(s, a) == UnwrapOr(s[a], 0)

RECURSIVE SumOver(_, _)
SumOver(s, as) ==
    IF as = {} THEN 0
    ELSE LET a == CHOOSE x \in as : TRUE
         IN  Bal(s, a) + SumOver(s, as \ {a})

\* The sum of all balance entries of a store.
SumBalances(s) == SumOver(s, Address)

\* --------------------------------------------------------- i128 arithmetic

Overflows(x) == x < I128_MIN \/ x > I128_MAX

\* Two's complement wrap-around of a mathematical integer into i128.
Wrap(x) == ((x - I128_MIN) % Pow2(I128_BITS)) + I128_MIN

\* The result of an i128 + or -: Absent when the build traps on overflow,
\* else the (possibly wrapped) value.
Arith(x) == IF Overflows(x) /\ ~wrapsOnOverflow THEN Absent ELSE <<Wrap(x)>>

\* ---------------------------------------------------------------- outcomes

Ok(s, n, y) == [status |-> "ok", store |-> s, retNum |-> n, retSym |-> y]

\* A panic fails the call; the host rolls the storage back to s.
Panic(kind, s) == [status |-> kind, store |-> s, retNum |-> 0, retSym |-> ""]


\* ------------------------------------------------------------ entry points
\* Each entry point is an operator from the storage s at the start of the
\* call, the set of addresses whose authorization proof the call carries and
\* the arguments, to the outcome of the call.

\* A require_auth that accepts the proof of any address.
RequireAuthAnyProof(a, auths) == auths # {}

\* address.require_auth(): passes iff the call carries the address's proof.
RequireAuth(a, auths) == a \in auths

\* An initialize that forgets to write the symbol key.
initializeWithoutSymbol(s, admin, decimal, nm, sym) ==
    LET s1 == Set(s, "admin", admin)
        s2 == Set(s1, "decimal", decimal)
        s3 == Set(s2, "name", nm)
    IN  Ok(s3, 0, "")

\* An initialize that keeps the administrator once one is set.
initializeKeepsAdmin(s, admin, decimal, nm, sym) ==
    LET s1 == IF s["admin"] = Absent THEN Set(s, "admin", admin) ELSE s
        s2 == Set(s1, "decimal", decimal)
        s3 == Set(s2, "name", nm)
        s4 == Set(s3, "symbol", sym)
    IN  Ok(s4, 0, "")

\* Token::initialize: four unconditional writes, no authorization.
initialize(s, admin, decimal, nm, sym) ==
    LET s1 == Set(s, "admin", admin)
        s2 == Set(s1, "decimal", decimal)
        s3 == Set(s2, "name", nm)
        s4 == Set(s3, "symbol", sym)
    IN  Ok(s4, 0, "")

\* A mint that forgets the balance it read.
MintSumOverwrite(balance, amount) == amount

\* A mint that counts the amount twice.
MintSumTwice(balance, amount) == balance + amount + amount

\* The value mint writes under `to`.
MintSum(balance, amount) == balance + amount

\* A mint that credits the administrator instead of `to`.
mintToAdmin(s, auths, to, amount) ==
    IF s["admin"] = Absent THEN Panic("MissingConfiguration", s)
    ELSE IF ~RequireAuth(s["admin"][1], auths) THEN Panic("AuthorizationFailure", s)
    ELSE LET admin == s["admin"][1]
             balance == UnwrapOr(s[admin], 0)
             sum == Arith(MintSum(balance, amount))
         IN  IF sum = Absent THEN Panic("ArithmeticOverflow", s)
             ELSE Ok(Set(s, admin, sum[1]), 0, "")

\* A mint that takes a missing administrator for "nobody to ask".
mintWithoutAdmin(s, auths, to, amount) ==
    IF s["admin"] # Absent /\ ~RequireAuth(s["admin"][1], auths)
    THEN Panic("AuthorizationFailure", s)
    ELSE LET balance == UnwrapOr(s[to], 0)
             sum == Arith(MintSum(balance, amount))
         IN  IF sum = Absent THEN Panic("ArithmeticOverflow", s)
             ELSE Ok(Set(s, to, sum[1]), 0, "")

\* Token::mint
mint(s, auths, to, amount) ==
    IF s["admin"] = Absent THEN Panic("MissingConfiguration", s)
    ELSE IF ~RequireAuth(s["admin"][1], auths) THEN Panic("AuthorizationFailure", s)
    ELSE LET balance == UnwrapOr(s[to], 0)
             sum == Arith(MintSum(balance, amount))
         IN  IF sum = Absent THEN Panic("ArithmeticOverflow", s)
             ELSE Ok(Set(s, to, sum[1]), 0, "")

\* A balance() whose default for a missing entry is not zero.
balanceDefaultOne(s, id) == Ok(s, UnwrapOr(s[id], 1), "")

\* A balance() that persists the default it returns.
balanceCreatesEntry(s, id) == Ok(Set(s, id, UnwrapOr(s[id], 0)), UnwrapOr(s[id], 0), "")

\* Token::balance (the call record keeps id in its `to` field)
balance(s, id) == Ok(s, UnwrapOr(s[id], 0), "")

\* A balance check that lets one unit too many through.
InsufficientOffByOne(from_balance, amount) == from_balance + 1 < amount

\* The balance check of transfer: `if from_balance < amount { panic!(..) }`.
Insufficient(from_balance, amount) == from_balance < amount

\* A transfer whose debit survives the failure of the credit.
transferKeepsDebit(s, auths, from, to, amount) ==
    IF ~RequireAuth(from, auths) THEN Panic("AuthorizationFailure", s)
    ELSE LET from_balance == UnwrapOr(s[from], 0)
         IN  IF Insufficient(from_balance, amount) THEN Panic("InsufficientBalance", s)
             ELSE LET to_balance == UnwrapOr(s[to], 0)
                      debit == Arith(from_balance - amount)
                      credit == Arith(to_balance + amount)
                  IN  IF debit = Absent THEN Panic("ArithmeticOverflow", s)
                      ELSE IF credit = Absent
                      THEN Panic("ArithmeticOverflow", Set(s, from, debit[1]))
                      ELSE Ok(Set(Set(s, from, debit[1]), to, credit[1]), 0, "")

\* A transfer that looks at the balance before it asks for the proof.
transferChecksBalanceFirst(s, auths, from, to, amount) ==
    LET from_balance == UnwrapOr(s[from], 0)
    IN  IF Insufficient(from_balance, amount) THEN Panic("InsufficientBalance", s)
        ELSE IF ~RequireAuth(from, auths) THEN Panic("AuthorizationFailure", s)
        ELSE LET to_balance == UnwrapOr(s[to], 0)
                 debit == Arith(from_balance - amount)
                 credit == Arith(to_balance + amount)
             IN  IF debit = Absent THEN Panic("ArithmeticOverflow", s)
                 ELSE IF credit = Absent THEN Panic("ArithmeticOverflow", s)
                 ELSE Ok(Set(Set(s, from, debit[1]), to, credit[1]), 0, "")

\* Token::transfer: both balances are read before either is written.
transfer(s, auths, from, to, amount) ==
    IF ~RequireAuth(from, auths) THEN Panic("AuthorizationFailure", s)
    ELSE LET from_balance == UnwrapOr(s[from], 0)
         IN  IF Insufficient(from_balance, amount) THEN Panic("InsufficientBalance", s)
             ELSE LET to_balance == UnwrapOr(s[to], 0)
                      debit == Arith(from_balance - amount)
                      credit == Arith(to_balance + amount)
                  IN  IF debit = Absent THEN Panic("ArithmeticOverflow", s)
                      ELSE IF credit = Absent THEN Panic("ArithmeticOverflow", s)
                      ELSE Ok(Set(Set(s, from, debit[1]), to, credit[1]), 0, "")

\* A name() that reads the symbol key.
nameReadsSymbol(s) ==
    IF s["symbol"] = Absent THEN Panic("MissingConfiguration", s)
    ELSE Ok(s, 0, s["symbol"][1])

\* Token::name
name(s) ==
    IF s["name"] = Absent THEN Panic("MissingConfiguration", s)
    ELSE Ok(s, 0, s["name"][1])

\* Token::symbol
symbol(s) ==
    IF s["symbol"] = Absent THEN Panic("MissingConfiguration", s)
    ELSE Ok(s, 0, s["symbol"][1])

\* Token::decimals
decimals(s) ==
    IF s["decimal"] = Absent THEN Panic("MissingConfiguration", s)
    ELSE Ok(s, s["decimal"][1], "")

\* ------------------------------------------------- counter entry points
\* The value stored under "count" carries the type it was written with.

U32_MAX == Pow2(U32_BITS) - 1

U32Val(n) == <<"u32", n>>
I32Val(n) == <<"i32", n>>

\* The number stored, whatever its type; 0 when nothing is stored.
CountValue(c) == IF c = Absent THEN 0 ELSE c[2]

\* storage.get::<_, u32>(key) finds a value that is not a u32.
ConversionFails(c) == c # Absent /\ c[1] # "u32"

\* u32 `count += 1`: Absent when the build traps on overflow.
ArithU32(x) ==
    IF x > U32_MAX /\ ~wrapsOnOverflow THEN Absent ELSE <<x % Pow2(U32_BITS)>>

\* Increment::increment
increment(c) ==
    IF ConversionFails(c) THEN Panic("ConversionError", c)
    ELSE LET count == ArithU32(CountValue(c) + 1)
         IN  IF count = Absent THEN Panic("ArithmeticOverflow", c)
             ELSE Ok(U32Val(count[1]), count[1], "")

\* Increment::decrement
decrement(c) ==
    IF ConversionFails(c) THEN Panic("ConversionError", c)
    ELSE LET count == IF CountValue(c) > 0 THEN CountValue(c) - 1 ELSE CountValue(c)
         IN  Ok(U32Val(count), count, "")

\* Increment::reset: the literal `&0` is stored with the type an untyped
\* integer literal gets, i32.
reset(c) == Ok(I32Val(0), 0, "")

\* Increment::get_count
get_count(c) ==
    IF ConversionFails(c) THEN Panic("ConversionError", c)
    ELSE Ok(c, CountValue(c), "")

\* ----------------------------------------------------------------- actions

\* The proofs a call may carry: none, or the proof of one address.
AuthSets == {{}} \cup {{a} : a \in Address}

\* The record of a call and its outcome.
CallRec(op, auths, from, to, amount, cfg, r) ==
    [op |-> op, auths |-> auths, from |-> from, to |-> to, amount |-> amount,
     cfg |-> cfg, status |-> r.status, retNum |-> r.retNum, retSym |-> r.retSym]

NoCall ==
    [op |-> "none", auths |-> {}, from |-> NoAddr, to |-> NoAddr, amount |-> 0,
     cfg |-> NoCfg, status |-> "ok", retNum |-> 0, retSym |-> ""]

Init ==
    /\ storage = [k \in Keys |-> Absent]
    /\ wrapsOnOverflow \in BOOLEAN
    /\ before = [k \in Keys |-> Absent]
    /\ call = NoCall
    /\ minted = 0
    /\ mintWrapped = FALSE
    /\ lastInit = NoCfg
    /\ prevAdmin = NoAddr
    /\ touched = {}
    /\ ninit = 0
    /\ transferred = FALSE
    /\ ncalls = 0
    /\ counter = Absent
    /\ counterBefore = Absent
    /\ prior = "none"

\* The host runs one call at a time: a call starts on an idle instance,
\* records the storage it started from and its outcome, and commits r.store.
Observe(r, c) ==
    /\ call.op = "none"
    /\ before' = storage
    /\ storage' = r.store
    /\ call' = c
    /\ UNCHANGED <<wrapsOnOverflow, counter, counterBefore, prior>>

Initialize ==
    /\ ncalls < MaxCalls
    /\ \E auths \in AuthSets, admin \in Address, tc \in TokenConfigs :
        LET r == initialize(storage, admin, tc.decimal, tc.name, tc.symbol)
            cfg == [admin |-> admin, decimal |-> tc.decimal, name |-> tc.name,
                    symbol |-> tc.symbol]
        IN  /\ Observe(r, CallRec("initialize", auths, NoAddr, NoAddr, 0, cfg, r))
            /\ lastInit' = cfg
            /\ prevAdmin' = lastInit.admin
            /\ ninit' = ninit + 1
            /\ ncalls' = ncalls + 1
            /\ UNCHANGED <<minted, mintWrapped, touched, transferred>>

Mint ==
    /\ ncalls < MaxCalls
    /\ \E auths \in AuthSets, to \in Address, amount \in Amounts :
        LET r == mint(storage, auths, to, amount)
            ok == r.status = "ok"
        IN  /\ Observe(r, CallRec("mint", auths, NoAddr, to, amount, NoCfg, r))
            /\ minted' = IF ok THEN minted + amount ELSE minted
            /\ mintWrapped' = (mintWrapped \/ (ok /\ Overflows(Bal(storage, to) + amount)))
            /\ touched' = IF ok THEN touched \cup {to} ELSE touched
            /\ ncalls' = ncalls + 1
            /\ UNCHANGED <<lastInit, prevAdmin, ninit, transferred>>

Transfer ==
    /\ ncalls < MaxCalls
    /\ \E auths \in AuthSets, from \in Address, to \in Address, amount \in Amounts :
        LET r == transfer(storage, auths, from, to, amount)
        IN  /\ Observe(r, CallRec("transfer", auths, from, to, amount, NoCfg, r))
            /\ transferred' = (transferred \/ r.status = "ok")
            /\ touched' = IF r.status = "ok" THEN touched \cup {from, to} ELSE touched
            /\ ncalls' = ncalls + 1
            /\ UNCHANGED <<minted, mintWrapped, lastInit, prevAdmin, ninit>>

Balance ==
    \E id \in Address :
        LET r == balance(storage, id)
        IN  /\ Observe(r, CallRec("balance", {}, NoAddr, id, 0, NoCfg, r))
            /\ UNCHANGED history

Name ==
    LET r == name(storage)
    IN  /\ Observe(r, CallRec("name", {}, NoAddr, NoAddr, 0, NoCfg, r))
        /\ UNCHANGED history

SymbolQuery ==
    LET r == symbol(storage)
    IN  /\ Observe(r, CallRec("symbol", {}, NoAddr, NoAddr, 0, NoCfg, r))
        /\ UNCHANGED history

DecimalsQuery ==
    LET r == decimals(storage)
    IN  /\ Observe(r, CallRec("decimals", {}, NoAddr, NoAddr, 0, NoCfg, r))
        /\ UNCHANGED history

\* A call of the counter contract: it starts on an idle instance, records
\* the value it started from and its outcome, and commits r.store.
ObserveCounter(r, c) ==
    /\ call.op = "none"
    /\ counterBefore' = counter
    /\ counter' = r.store
    /\ call' = c
    /\ UNCHANGED <<storage, before, wrapsOnOverflow, prior>>
    /\ UNCHANGED history

Increment ==
    LET r == increment(counter)
    IN  ObserveCounter(r, CallRec("increment", {}, NoAddr, NoAddr, 0, NoCfg, r))

Decrement ==
    LET r == decrement(counter)
    IN  ObserveCounter(r, CallRec("decrement", {}, NoAddr, NoAddr, 0, NoCfg, r))

Reset ==
    LET r == reset(counter)
    IN  ObserveCounter(r, CallRec("reset", {}, NoAddr, NoAddr, 0, NoCfg, r))

GetCount ==
    LET r == get_count(counter)
    IN  ObserveCounter(r, CallRec("get_count", {}, NoAddr, NoAddr, 0, NoCfg, r))

\* The result is handed to the caller; the instance is idle again.
Return ==
    /\ call.op # "none"
    /\ call' = NoCall
    /\ before' = storage
    /\ counterBefore' = counter
    /\ prior' = IF call.op \in {"increment", "decrement", "reset"} /\ call.status = "ok"
                THEN call.op ELSE prior
    /\ UNCHANGED <<storage, wrapsOnOverflow, counter>>
    /\ UNCHANGED history

Next ==
    \/ Initialize
    \/ Mint
    \/ Transfer
    \/ Balance
    \/ Name
    \/ SymbolQuery
    \/ DecimalsQuery
    \/ Return

Spec == Init /\ [][Next]_vars

\* The build that traps on overflow (overflow checks on, as in `cargo test`).
InitTrapping == Init /\ ~wrapsOnOverflow

SpecTrapping == InitTrapping /\ [][Next]_vars

\* The counter contract on its own instance.
NextCounter ==
    \/ Increment
    \/ Decrement
    \/ Reset
    \/ GetCount
    \/ Return

SpecCounter == Init /\ [][NextCounter]_vars

\* ------------------------------------------------------------ properties
\* `call` and `before` describe the call just answered: in a state with
\* call.op = "transfer" the storage is the one the transfer left and `before`
\* the one it found.

Succeeded == call.status = "ok"

\* The administrator configured in a store (only read where one is set).
AdminOf(s) == s["admin"][1]

\* C1: the sum of all balance entries equals the sum of the amounts of all
\* successful mint calls, in every reachable state.
C1_TotalValue == SumBalances(storage) = minted

\* C2: a transfer that succeeds leaves balance(from) + balance(to) as it was,
\* for every from and to (from = to included).
C2_TransferConserves ==
    (call.op = "transfer" /\ Succeeded) =>
        Bal(before, call.from) + Bal(before, call.to)
            = Bal(storage, call.from) + Bal(storage, call.to)

\* C3: every account's balance is >= 0 in every reachable state.
C3_NonNegative == \A a \in Address : Bal(storage, a) >= 0

\* C4: a transfer carrying from's proof with amount > balance(from) fails
\* with the insufficient-balance failure and leaves every stored key as it was.
C4_InsufficientBalance ==
    (/\ call.op = "transfer"
     /\ call.from \in call.auths
     /\ call.amount > Bal(before, call.from))
    => (call.status = "InsufficientBalance" /\ storage = before)

\* C4 witness: a sender holding a positive balance asked for more than it has.
C4_Witness ==
    /\ call.op = "transfer"
    /\ call.from \in call.auths
    /\ Bal(before, call.from) > 0
    /\ call.amount > Bal(before, call.from)
    /\ call.status = "InsufficientBalance"

\* C5: a mint without the configured administrator's proof and a transfer
\* without from's proof fail and leave the whole store unchanged, whatever the
\* other arguments are.
C5_Authorization ==
    /\ (call.op = "mint" /\ before["admin"] # Absent /\ AdminOf(before) \notin call.auths)
        => (call.status = "AuthorizationFailure" /\ storage = before)
    /\ (call.op = "mint" /\ before["admin"] = Absent)
        => (~Succeeded /\ storage = before)
    /\ (call.op = "transfer" /\ call.from \notin call.auths)
        => (call.status = "AuthorizationFailure" /\ storage = before)

\* C5 witness: a transfer the sender's balance covers, carrying the proof of
\* another address only, was refused.
C5_Witness ==
    /\ call.op = "transfer"
    /\ call.auths # {}
    /\ call.from \notin call.auths
    /\ call.amount > 0
    /\ Bal(before, call.from) >= call.amount
    /\ call.status = "AuthorizationFailure"

\* A mint that passes both checks of Token::mint: an administrator is
\* configured and the call carries its proof.
AuthorizedMint ==
    /\ call.op = "mint"
    /\ before["admin"] # Absent
    /\ AdminOf(before) \in call.auths

\* The mathematical sum an authorized mint asks for.
Asked == Bal(before, call.to) + call.amount

\* C6 as stated: every authorized mint, for every signed amount, succeeds and
\* sets balance(to) to its previous value plus amount.
C6_MintEffectAnyAmount ==
    AuthorizedMint => (Succeeded /\ Bal(storage, call.to) = Asked)

\* C6 amended: an authorized mint sets balance(to) to previous + amount
\* whenever that sum is an i128; when it is not, a build with overflow checks
\* fails the call and leaves the store unchanged, and a build without them
\* stores the sum wrapped around into i128.
C6_MintEffect ==
    AuthorizedMint =>
        IF ~Overflows(Asked)
        THEN /\ Succeeded
             /\ storage = [before EXCEPT ![call.to] = <<Asked>>]
        ELSE IF wrapsOnOverflow
        THEN /\ Succeeded
             /\ storage = [before EXCEPT ![call.to] = <<Wrap(Asked)>>]
        ELSE call.status = "ArithmeticOverflow" /\ storage = before

\* C6 witness: a negative amount minted onto an existing entry, in range.
C6_Witness ==
    /\ AuthorizedMint
    /\ before[call.to] # Absent
    /\ call.amount < 0
    /\ ~Overflows(Asked)
    /\ Succeeded
    /\ Bal(storage, call.to) = Asked

\* One initialize, then nothing but mints (queries and failed calls apart).
MintsOnly == ninit = 1 /\ ~transferred

\* C7 as stated: after initialize and any sequence of successful mints, the
\* sum of all balances equals the sum of the minted amounts.
C7_MintConservationExact == MintsOnly => SumBalances(storage) = minted

\* C7 amended: after initialize and successful mints only, the sum of all
\* balances equals the sum of the minted amounts as long as no mint wrapped
\* around (none does in a build with overflow checks), and is congruent to it
\* modulo 2^bits in any case.
C7_MintConservation ==
    MintsOnly =>
        /\ (SumBalances(storage) - minted) % Pow2(I128_BITS) = 0
        /\ ~mintWrapped => SumBalances(storage) = minted
        /\ ~wrapsOnOverflow => ~mintWrapped

\* C7 witness: a second successful mint landed on an account minted to before.
C7_Witness ==
    /\ MintsOnly
    /\ call.op = "mint"
    /\ Succeeded
    /\ call.amount # 0
    /\ Bal(before, call.to) # 0
    /\ ~mintWrapped

\* C8: no call makes the sum of all balances smaller than it was.
C8_SupplyMonotone == SumBalances(storage) >= SumBalances(before)

\* C9: name(), symbol() and decimals() succeed once initialize has been
\* called and return the arguments of the most recent initialize call.
C9_ConfigReadBack ==
    ninit > 0 =>
        /\ call.op = "name" => (Succeeded /\ call.retSym = lastInit.name)
        /\ call.op = "symbol" => (Succeeded /\ call.retSym = lastInit.symbol)
        /\ call.op = "decimals" => (Succeeded /\ call.retNum = lastInit.decimal)

\* C9 witness: name() answered "Gold" after a second initialize replaced the
\* configuration.
C9_Witness ==
    /\ ninit >= 2
    /\ call.op = "name"
    /\ Succeeded
    /\ lastInit.name = "Gold"
    /\ call.retSym = "Gold"

\* C10: while initialize has never been called, name(), symbol(), decimals()
\* and mint fail, mint also when the call carries a proof, and the store is
\* left unchanged.
C10_MissingConfiguration ==
    (ninit = 0 /\ call.op \in {"name", "symbol", "decimals", "mint"}) =>
        (call.status = "MissingConfiguration" /\ storage = before)

\* C10 witness: a mint carrying a proof was refused on an instance that holds
\* balances but no configuration.
C10_Witness ==
    /\ ninit = 0
    /\ transferred
    /\ call.op = "mint"
    /\ call.auths # {}
    /\ call.status = "MissingConfiguration"


\* C11: balance(id) returns 0 for every account that was never the `to` of a
\* successful mint nor the `from` or `to` of a successful transfer; such an
\* account has no entry at all.
C11_ZeroDefault ==
    /\ \A a \in Address \ touched : storage[a] = Absent
    /\ (call.op = "balance" /\ call.to \notin touched) =>
            (Succeeded /\ call.retNum = 0)

\* C11 witness: balance() of an untouched account answered 0 on an instance
\* where the other account holds a non-zero balance.
C11_Witness ==
    /\ call.op = "balance"
    /\ call.to \notin touched
    /\ call.retNum = 0
    /\ \E a \in touched : Bal(storage, a) # 0

\* C12: balance(id) succeeds in every state, initialized or not, returns the
\* stored balance or 0, and leaves the configuration and every balance entry
\* as they were (no entry is created for id).
C12_BalancePureRead ==
    call.op = "balance" =>
        /\ Succeeded
        /\ call.retNum = (IF before[call.to] = Absent THEN 0 ELSE before[call.to][1])
        /\ storage = before

\* C12 witness: balance() of an account without an entry, on an instance that
\* was never initialized, answered 0 and created no entry.
C12_Witness ==
    /\ call.op = "balance"
    /\ ninit = 0
    /\ before[call.to] = Absent
    /\ storage[call.to] = Absent
    /\ Succeeded

\* The two writes of a transfer: the debit under `from`, then the credit
\* under `to`, each an i128 result.
BothWrites ==
    LET debit == Wrap(Bal(before, call.from) - call.amount)
        credit == Wrap(Bal(before, call.to) + call.amount)
    IN  [[before EXCEPT ![call.from] = <<debit>>] EXCEPT ![call.to] = <<credit>>]

\* C13: the storage left by a transfer has either both of its writes or
\* neither, and a failed call of any entry point leaves the storage exactly
\* as it found it.
C13_TransferAtomic ==
    /\ call.op = "transfer" =>
            IF Succeeded THEN storage = BothWrites ELSE storage = before
    /\ ~Succeeded => storage = before

\* C13 witness: a transfer whose debit was in range failed on the credit, and
\* nothing of it is stored.
C13_Witness ==
    /\ call.op = "transfer"
    /\ call.status = "ArithmeticOverflow"
    /\ ~Overflows(Bal(before, call.from) - call.amount)
    /\ Overflows(Bal(before, call.to) + call.amount)
    /\ storage = before

\* C14: a transfer without from's proof fails with the authorization
\* failure, never with the insufficient-balance failure, also when
\* amount > balance(from).
C14_AuthorizationFirst ==
    /\ (call.op = "transfer" /\ call.from \notin call.auths
            /\ call.amount > Bal(before, call.from))
        => call.status = "AuthorizationFailure"
    /\ (call.op = "transfer" /\ call.status = "InsufficientBalance")
        => call.from \in call.auths

\* C14 witness: a transfer of more than the sender holds, without the
\* sender's proof, was refused for the missing proof.
C14_Witness ==
    /\ call.op = "transfer"
    /\ call.from \notin call.auths
    /\ Bal(before, call.from) > 0
    /\ call.amount > Bal(before, call.from)
    /\ call.status = "AuthorizationFailure"

\* The configuration level of a store.
Initialized(s) == \A k \in ConfigKeys : s[k] # Absent
Uninitialized(s) == \A k \in ConfigKeys : s[k] = Absent

\* C15: the instance is Uninitialized or Initialized; it becomes Initialized
\* only by an initialize call, which always succeeds; once Initialized it
\* stays so under every later call, and name(), symbol() and decimals() then
\* never fail.
C15_ConfigStateMachine ==
    /\ Initialized(storage) \/ Uninitialized(storage)
    /\ Initialized(storage) <=> ninit > 0
    /\ (Uninitialized(before) /\ Initialized(storage)) =>
            (call.op = "initialize" /\ Succeeded)
    /\ Initialized(before) => Initialized(storage)
    /\ (Initialized(before) /\ call.op \in {"name", "symbol", "decimals"}) => Succeeded

\* C15 witness: symbol() answered on an instance that was initialized and has
\* since seen a successful mint and a successful transfer.
C15_Witness ==
    /\ call.op = "symbol"
    /\ Succeeded
    /\ Initialized(before)
    /\ minted # 0
    /\ transferred

\* C16: initialize succeeds with or without proofs, initialized or not, and
\* changes no balance entry; afterwards mint asks for the proof of the
\* administrator of the most recent initialize, so a mint carrying only the
\* proof of the administrator it replaced fails.
C16_Reinitialize ==
    /\ call.op = "initialize" =>
            /\ Succeeded
            /\ storage["admin"] = <<call.cfg.admin>>
            /\ \A a \in Address : storage[a] = before[a]
    /\ (call.op = "mint" /\ ninit > 0) =>
            (call.status = "AuthorizationFailure" <=> lastInit.admin \notin call.auths)
    /\ (call.op = "mint" /\ prevAdmin \notin {NoAddr, lastInit.admin}
            /\ call.auths = {prevAdmin})
        => (call.status = "AuthorizationFailure" /\ storage = before)

\* C16 witness: after a second initialize named another administrator, a mint
\* carrying the first administrator's proof was refused.
C16_Witness ==
    /\ call.op = "mint"
    /\ ninit = 2
    /\ prevAdmin \in Address
    /\ prevAdmin # lastInit.admin
    /\ call.auths = {prevAdmin}
    /\ call.status = "AuthorizationFailure"

\* The keys a call may have written: `to` for mint, `from` and `to` for
\* transfer, the configuration keys for initialize.
Frame ==
    CASE call.op = "mint" -> {call.to}
      [] call.op = "transfer" -> {call.from, call.to}
      [] call.op = "initialize" -> ConfigKeys
      [] OTHER -> {}

\* C17: a successful mint changes no stored key other than the balance of
\* `to`, a successful transfer none other than the balances of `from` and
\* `to`, neither changes admin, decimal, name or symbol, and initialize
\* changes no balance entry.
C17_Frame == \A k \in Keys \ Frame : storage[k] = before[k]

\* C17 witness: a successful mint to an account that is not the
\* administrator changed that account's balance, on an instance where the
\* administrator holds a balance too.
C17_Witness ==
    /\ call.op = "mint"
    /\ Succeeded
    /\ call.to # AdminOf(before)
    /\ Bal(before, AdminOf(before)) # 0
    /\ storage[call.to] # before[call.to]

\* C18: the stored count is never negative, and decrement returns and
\* stores 0 when the count is 0 or was never set, and n - 1 when it is n > 0.
C18_SaturatingDecrement ==
    /\ CountValue(counter) >= 0
    /\ call.op = "decrement" =>
            LET n == CountValue(counterBefore)
                m == IF n > 0 THEN n - 1 ELSE 0
            IN  /\ Succeeded
                /\ call.retNum = m
                /\ counter # Absent
                /\ CountValue(counter) = m

\* C19: increment returns and stores the previous count plus 1 (1 on a fresh
\* instance), and after a reset get_count returns 0 and the next increment
\* returns 1.
C19_IncrementAndReset ==
    /\ call.op = "increment" =>
            /\ Succeeded
            /\ call.retNum = CountValue(counterBefore) + 1
            /\ counter # Absent
            /\ CountValue(counter) = call.retNum
    /\ call.op = "reset" => (Succeeded /\ counter # Absent /\ CountValue(counter) = 0)
    /\ (call.op = "get_count" /\ prior = "reset") => (Succeeded /\ call.retNum = 0)
    /\ (call.op = "increment" /\ prior = "reset") => (Succeeded /\ call.retNum = 1)

=============================================================================
